---- MODULE Spec2Model ----
(***************************************************************************)
(* StellarDAppContract (packages/contracts/src): transactions, escrows and *)
(* invoices kept in contract storage, the per-kind id counters and the     *)
(* reentrancy flag.                                                        *)
(*                                                                         *)
(* Every public function of lib.rs is an operator of the same name taking  *)
(* the environment `env` (the contract storage and the ledger clock) and   *)
(* the call's arguments, and giving the environment after the call with    *)
(* the returned value: the environment as the function body leaves it.    *)
(* The host commits that environment when the function returns Ok and      *)
(* discards every write of an invocation that returns Err (Committed).     *)
(* Host authorization (require_auth) is granted, as under mock_all_auths   *)
(* in the tests.                                                           *)
(* Free-form strings (metadata, description, reason, condition parameters) *)
(* are stored or dropped without being read and are left out.              *)
(***************************************************************************)
EXTENDS Integers, Sequences, FiniteSets, TLC

\* ------------------------------------------------------------- bounds
\* Ledger timestamps explored: 0..MaxTime.
MaxTime == 2
\* Creation calls are explored while fewer than MaxRecords records exist.
MaxRecords == 2
\* Width of the amount type in the model (i128 in the code, types.rs:98).
AmountBits == 8

I128_MAX == 2 ^ (AmountBits - 1) - 1

Address == {"alice", "bob"}
\* Parties of transactions and escrows (opaque to the contract).
Senders == {"alice"}
Recipients == {"bob"}
\* Invoice parties; every address may call on an invoice.
Creators == {"alice"}
Clients == {"bob"}

\* Amounts on both sides of the two limits of validate_amount.
AmountInputs == {-1, 0, I128_MAX \div 2, (I128_MAX \div 2) + 1}
\* Expiry and due dates asked for at time t0: just before, at and just after
\* it (the code compares them with the clock alone).
TimeInputs(t0) == { t \in 0 .. MaxTime : t0 - 1 <= t /\ t <= t0 + 1 }
IdInputs == 1 .. MaxRecords

ConditionType == {"TimeBased", "OracleBased", "ManualApproval"}
ConditionInputs ==
    { <<>>, <<"TimeBased", "OracleBased", "ManualApproval">> }

\* Option<T>: None is <<>>, Some(x) is <<x>>.
None == <<>>
Some(x) == <<x>>

VARIABLES
    reentry,       \* instance storage has the key "reentry"
    admin,         \* instance storage "admin" (Option<Address>)
    tx_count,      \* instance storage "tx_count"
    esc_count,     \* instance storage "esc_count"
    inv_count,     \* instance storage "inv_count"
    transactions,  \* persistent storage, key id
    escrows,       \* persistent storage, key ("escrow", id)
    invoices,      \* persistent storage, key ("invoice", id)
    now            \* env.ledger().timestamp()

vars == <<reentry, admin, tx_count, esc_count, inv_count,
          transactions, escrows, invoices, now>>

\* The environment a call runs in.
Env ==
    [ reentry |-> reentry, admin |-> admin,
      tx_count |-> tx_count, esc_count |-> esc_count, inv_count |-> inv_count,
      transactions |-> transactions, escrows |-> escrows,
      invoices |-> invoices, now |-> now ]

\* ------------------------------------------------------------- returns
\* A returned value with the environment the call leaves behind.
\* err is "Ok" or the ContractError; id/status/tx_hash are the fields of
\* TransactionResult, EscrowResult and InvoiceResult; met is the boolean of
\* check_escrow_conditions; rec is the record a getter returns.
Ret(env, err, id, status, tx_hash, met, rec) ==
    [ env |-> env, err |-> err, id |-> id, status |-> status,
      tx_hash |-> tx_hash, met |-> met, rec |-> rec ]

Ok(env, id, status, tx_hash) ==
    Ret(env, "Ok", id, status, tx_hash, FALSE, None)

OkBool(env, b) == Ret(env, "Ok", 0, "None", None, b, None)

OkRecord(env, r) == Ret(env, "Ok", 0, "None", None, FALSE, Some(r))

Err(env, e) == Ret(env, e, 0, "None", None, FALSE, None)

\* The first error of a sequence of results, each "Ok" or an error: a chain
\* of `?` returns at the first error.
RECURSIVE FirstError(_)
FirstError(rs) ==
    IF rs = <<>> THEN "Ok"
    ELSE IF Head(rs) # "Ok" THEN Head(rs)
    ELSE FirstError(Tail(rs))

\* ------------------------------------------------------------- validation.rs
validate_address(address) == "Ok"

\* validate_amount that accepts the amount 0.
validate_amount_allows_zero(amount) ==
    IF amount < 0 THEN "InvalidAmount"
    ELSE IF amount > I128_MAX \div 2 THEN "InvalidAmount"
    ELSE "Ok"

validate_amount(amount) ==
    IF amount <= 0 THEN "InvalidAmount"
    ELSE IF amount > I128_MAX \div 2 THEN "InvalidAmount"
    ELSE "Ok"

validate_balance(account, amount) ==
    IF amount <= 0 THEN "InvalidAmount" ELSE "Ok"

validate_signature(signer) == "Ok"

\* check_reentrancy that sets the flag without looking at it.
check_reentrancy_ignores_flag(env) ==
    [err |-> "Ok", env |-> [env EXCEPT !.reentry = TRUE]]

check_reentrancy(env) ==
    IF env.reentry
    THEN [err |-> "ReentrancyDetected", env |-> env]
    ELSE [err |-> "Ok", env |-> [env EXCEPT !.reentry = TRUE]]

\* clear_reentrancy that leaves the flag as it is.
clear_reentrancy_keeps_flag(env) == env

clear_reentrancy(env) == [env EXCEPT !.reentry = FALSE]

\* ------------------------------------------------------------- storage.rs
set_admin(env, a) == [env EXCEPT !.admin = Some(a)]

\* get_next_transaction_id that does not store the new counter.
get_next_transaction_id_not_stored(env) ==
    [env |-> env, id |-> env.tx_count + 1]

get_next_transaction_id(env) ==
    LET next == env.tx_count + 1
    IN  [env |-> [env EXCEPT !.tx_count = next], id |-> next]

\* get_next_escrow_id that returns the counter as it was read.
get_next_escrow_id_returns_current(env) ==
    LET next == env.esc_count + 1
    IN  [env |-> [env EXCEPT !.esc_count = next], id |-> env.esc_count]

get_next_escrow_id(env) ==
    LET next == env.esc_count + 1
    IN  [env |-> [env EXCEPT !.esc_count = next], id |-> next]

\* get_next_invoice_id that steps the counter by two.
get_next_invoice_id_by_two(env) ==
    LET next == env.inv_count + 2
    IN  [env |-> [env EXCEPT !.inv_count = next], id |-> next]

get_next_invoice_id(env) ==
    LET next == env.inv_count + 1
    IN  [env |-> [env EXCEPT !.inv_count = next], id |-> next]

set_transaction(env, id, transaction) ==
    [env EXCEPT !.transactions = (id :> transaction) @@ @]

storage_get_transaction(env, id) ==
    IF id \in DOMAIN env.transactions THEN Some(env.transactions[id]) ELSE None

\* get_transactions_by_account that scans the stored transactions.
get_transactions_by_account_scanned(env, account) ==
    SelectSeq([ n \in 1 .. env.tx_count |-> env.transactions[n] ],
              LAMBDA t : t.sender = account \/ t.recipient = account)

get_transactions_by_account(env, account) == <<>>

\* set_escrow that stores under the bare id, the key of the transactions.
set_escrow_untagged(env, id, escrow) ==
    [env EXCEPT !.transactions = (id :> escrow) @@ @]

set_escrow(env, id, escrow) ==
    [env EXCEPT !.escrows = (id :> escrow) @@ @]

get_escrow(env, id) ==
    IF id \in DOMAIN env.escrows THEN Some(env.escrows[id]) ELSE None

set_invoice(env, id, invoice) ==
    [env EXCEPT !.invoices = (id :> invoice) @@ @]

storage_get_invoice(env, id) ==
    IF id \in DOMAIN env.invoices THEN Some(env.invoices[id]) ELSE None

\* ------------------------------------------------------------- lib.rs
initialize(env, a) == Ok(set_admin(env, a), 0, "None", None)

version(env) == Ok(env, 1, "None", None)

\* execute_transaction that stores the record once, as Pending.
execute_transaction_left_pending(env, sender, recipient, amount) ==
    LET g == check_reentrancy(env) IN
    IF g.err # "Ok" THEN Err(env, g.err)
    ELSE
    LET v == FirstError(<< validate_address(sender),
                           validate_address(recipient),
                           validate_amount(amount),
                           validate_balance(sender, amount) >>) IN
    IF v # "Ok" THEN Err(g.env, v)
    ELSE
    LET a == get_next_transaction_id(g.env)
        transaction ==
            [ id |-> a.id, transaction_type |-> "Basic",
              sender |-> sender, recipient |-> recipient, amount |-> amount,
              status |-> "Pending", timestamp |-> env.now ]
        e1 == set_transaction(a.env, a.id, transaction)
    IN  Ok(clear_reentrancy(e1), a.id, "Confirmed", Some("mock_tx_hash"))

execute_transaction(env, sender, recipient, amount) ==
    LET g == check_reentrancy(env) IN
    IF g.err # "Ok" THEN Err(env, g.err)
    ELSE
    LET v == FirstError(<< validate_address(sender),
                           validate_address(recipient),
                           validate_amount(amount),
                           validate_balance(sender, amount) >>) IN
    IF v # "Ok" THEN Err(g.env, v)
    ELSE
    LET a == get_next_transaction_id(g.env)
        transaction ==
            [ id |-> a.id, transaction_type |-> "Basic",
              sender |-> sender, recipient |-> recipient, amount |-> amount,
              status |-> "Pending", timestamp |-> env.now ]
        e1 == set_transaction(a.env, a.id, transaction)
        updated_transaction == [transaction EXCEPT !.status = "Confirmed"]
        e2 == set_transaction(e1, a.id, updated_transaction)
    IN  Ok(clear_reentrancy(e2), a.id, "Confirmed", Some("mock_tx_hash"))

\* execute_p2p_transaction that records the type Basic.
execute_p2p_transaction_as_basic(env, sender, recipient, amount) ==
    LET g == check_reentrancy(env) IN
    IF g.err # "Ok" THEN Err(env, g.err)
    ELSE
    LET v == FirstError(<< validate_address(sender),
                           validate_address(recipient),
                           validate_amount(amount),
                           validate_balance(sender, amount) >>) IN
    IF v # "Ok" THEN Err(g.env, v)
    ELSE
    LET a == get_next_transaction_id(g.env)
        transaction ==
            [ id |-> a.id, transaction_type |-> "Basic",
              sender |-> sender, recipient |-> recipient, amount |-> amount,
              status |-> "Pending", timestamp |-> env.now ]
        e1 == set_transaction(a.env, a.id, transaction)
        updated_transaction == [transaction EXCEPT !.status = "Confirmed"]
        e2 == set_transaction(e1, a.id, updated_transaction)
    IN  Ok(clear_reentrancy(e2), a.id, "Confirmed", Some("p2p_tx_hash"))

execute_p2p_transaction(env, sender, recipient, amount) ==
    LET g == check_reentrancy(env) IN
    IF g.err # "Ok" THEN Err(env, g.err)
    ELSE
    LET v == FirstError(<< validate_address(sender),
                           validate_address(recipient),
                           validate_amount(amount),
                           validate_balance(sender, amount) >>) IN
    IF v # "Ok" THEN Err(g.env, v)
    ELSE
    LET a == get_next_transaction_id(g.env)
        transaction ==
            [ id |-> a.id, transaction_type |-> "P2P",
              sender |-> sender, recipient |-> recipient, amount |-> amount,
              status |-> "Pending", timestamp |-> env.now ]
        e1 == set_transaction(a.env, a.id, transaction)
        updated_transaction == [transaction EXCEPT !.status = "Confirmed"]
        e2 == set_transaction(e1, a.id, updated_transaction)
    IN  Ok(clear_reentrancy(e2), a.id, "Confirmed", Some("p2p_tx_hash"))

get_transaction(env, transaction_id) ==
    LET t == storage_get_transaction(env, transaction_id) IN
    IF t = None THEN Err(env, "TransactionNotFound")
    ELSE OkRecord(env, t[1])

get_transaction_history(env, account) ==
    IF validate_address(account) # "Ok" THEN Err(env, validate_address(account))
    ELSE Ret(env, "Ok", 0, "None", None, FALSE,
             get_transactions_by_account(env, account))

\* create_escrow that accepts an expiry equal to the current time.
create_escrow_expiry_now_allowed(env, sender, recipient, amount, conditions, expires_at) ==
    LET g == check_reentrancy(env) IN
    IF g.err # "Ok" THEN Err(env, g.err)
    ELSE
    LET v == FirstError(<< validate_address(sender),
                           validate_address(recipient),
                           validate_amount(amount),
                           validate_balance(sender, amount) >>) IN
    IF v # "Ok" THEN Err(g.env, v)
    ELSE IF expires_at < env.now
    THEN Err(clear_reentrancy(g.env), "InvalidAmount")
    ELSE
    LET a == get_next_escrow_id(g.env)
        escrow ==
            [ id |-> a.id, sender |-> sender, recipient |-> recipient,
              amount |-> amount, conditions |-> conditions,
              status |-> "Active", created_at |-> env.now,
              expires_at |-> expires_at ]
        e1 == set_escrow(a.env, a.id, escrow)
    IN  Ok(clear_reentrancy(e1), a.id, "Active", None)

\* create_escrow that allocates the id before it checks the expiry.
create_escrow_allocates_first(env, sender, recipient, amount, conditions, expires_at) ==
    LET g == check_reentrancy(env) IN
    IF g.err # "Ok" THEN Err(env, g.err)
    ELSE
    LET v == FirstError(<< validate_address(sender),
                           validate_address(recipient),
                           validate_amount(amount),
                           validate_balance(sender, amount) >>) IN
    IF v # "Ok" THEN Err(g.env, v)
    ELSE IF expires_at <= env.now
    THEN Err(clear_reentrancy(get_next_escrow_id(g.env).env), "InvalidAmount")
    ELSE
    LET a == get_next_escrow_id(g.env)
        escrow ==
            [ id |-> a.id, sender |-> sender, recipient |-> recipient,
              amount |-> amount, conditions |-> conditions,
              status |-> "Active", created_at |-> env.now,
              expires_at |-> expires_at ]
        e1 == set_escrow(a.env, a.id, escrow)
    IN  Ok(clear_reentrancy(e1), a.id, "Active", None)

create_escrow(env, sender, recipient, amount, conditions, expires_at) ==
    LET g == check_reentrancy(env) IN
    IF g.err # "Ok" THEN Err(env, g.err)
    ELSE
    LET v == FirstError(<< validate_address(sender),
                           validate_address(recipient),
                           validate_amount(amount),
                           validate_balance(sender, amount) >>) IN
    IF v # "Ok" THEN Err(g.env, v)
    ELSE IF expires_at <= env.now
    THEN Err(clear_reentrancy(g.env), "InvalidAmount")
    ELSE
    LET a == get_next_escrow_id(g.env)
        escrow ==
            [ id |-> a.id, sender |-> sender, recipient |-> recipient,
              amount |-> amount, conditions |-> conditions,
              status |-> "Active", created_at |-> env.now,
              expires_at |-> expires_at ]
        e1 == set_escrow(a.env, a.id, escrow)
    IN  Ok(clear_reentrancy(e1), a.id, "Active", None)

\* check_single_condition whose oracle does not confirm the condition.
check_single_condition_oracle_unconfirmed(condition) ==
    CASE condition = "TimeBased" -> TRUE
      [] condition = "OracleBased" -> FALSE
      [] condition = "ManualApproval" -> TRUE

check_single_condition(condition) ==
    CASE condition = "TimeBased" -> TRUE
      [] condition = "OracleBased" -> TRUE
      [] condition = "ManualApproval" -> TRUE

\* The loop of check_escrow_conditions with all_conditions_met starting false.
RECURSIVE AllConditionsMet_initially_false(_, _)
AllConditionsMet_initially_false(conditions, i) ==
    IF i > Len(conditions) THEN FALSE
    ELSE IF ~check_single_condition(conditions[i]) THEN FALSE
    ELSE AllConditionsMet_initially_false(conditions, i + 1)

\* The loop of check_escrow_conditions over conditions[i..]: false at the
\* first condition that is not met, without looking at the ones after it.
RECURSIVE AllConditionsMet(_, _)
AllConditionsMet(conditions, i) ==
    IF i > Len(conditions) THEN TRUE
    ELSE IF ~check_single_condition(conditions[i]) THEN FALSE
    ELSE AllConditionsMet(conditions, i + 1)

\* The indices of conditions[i..] on which the loop of
\* check_escrow_conditions calls check_single_condition, in the order of the
\* calls: the loop breaks after the first condition that is not met.
RECURSIVE ConditionsEvaluated(_, _)
ConditionsEvaluated(conditions, i) ==
    IF i > Len(conditions) THEN <<>>
    ELSE IF ~check_single_condition(conditions[i]) THEN << i >>
    ELSE << i >> \o ConditionsEvaluated(conditions, i + 1)

\* check_escrow_conditions that takes the expiry time itself as expired.
check_escrow_conditions_expired_at_expiry(env, escrow_id) ==
    LET o == get_escrow(env, escrow_id) IN
    IF o = None THEN Err(env, "EscrowNotFound")
    ELSE
    LET escrow == o[1] IN
    IF escrow.status # "Active" THEN OkBool(env, FALSE)
    ELSE IF env.now >= escrow.expires_at THEN OkBool(env, FALSE)
    ELSE OkBool(env, AllConditionsMet(escrow.conditions, 1))

\* check_escrow_conditions that reports an escrow that is not Active as absent.
check_escrow_conditions_inactive_error(env, escrow_id) ==
    LET o == get_escrow(env, escrow_id) IN
    IF o = None THEN Err(env, "EscrowNotFound")
    ELSE
    LET escrow == o[1] IN
    IF escrow.status # "Active" THEN Err(env, "EscrowNotFound")
    ELSE IF env.now > escrow.expires_at THEN OkBool(env, FALSE)
    ELSE OkBool(env, AllConditionsMet(escrow.conditions, 1))

check_escrow_conditions(env, escrow_id) ==
    LET o == get_escrow(env, escrow_id) IN
    IF o = None THEN Err(env, "EscrowNotFound")
    ELSE
    LET escrow == o[1] IN
    IF escrow.status # "Active" THEN OkBool(env, FALSE)
    ELSE IF env.now > escrow.expires_at THEN OkBool(env, FALSE)
    ELSE OkBool(env, AllConditionsMet(escrow.conditions, 1))

\* release_escrow without the check that the escrow is Active.
release_escrow_any_status(env, escrow_id) ==
    LET g == check_reentrancy(env) IN
    IF g.err # "Ok" THEN Err(env, g.err)
    ELSE
    LET o == get_escrow(g.env, escrow_id) IN
    IF o = None THEN Err(g.env, "EscrowNotFound")
    ELSE
    LET escrow == o[1] IN
    IF env.now > escrow.expires_at
    THEN Err(clear_reentrancy(g.env), "EscrowExpired")
    ELSE
    LET e1 == set_escrow(g.env, escrow_id,
                         [escrow EXCEPT !.status = "Released"])
    IN  Ok(clear_reentrancy(e1), escrow_id, "Released",
           Some("release_tx_hash"))

\* release_escrow that checks the expiry before the status.
release_escrow_expiry_first(env, escrow_id) ==
    LET g == check_reentrancy(env) IN
    IF g.err # "Ok" THEN Err(env, g.err)
    ELSE
    LET o == get_escrow(g.env, escrow_id) IN
    IF o = None THEN Err(g.env, "EscrowNotFound")
    ELSE
    LET escrow == o[1] IN
    IF env.now > escrow.expires_at
    THEN Err(clear_reentrancy(g.env), "EscrowExpired")
    ELSE IF escrow.status # "Active"
    THEN Err(clear_reentrancy(g.env), "EscrowNotFound")
    ELSE
    LET c == check_escrow_conditions(g.env, escrow_id) IN
    IF c.err # "Ok" THEN Err(g.env, c.err)
    ELSE IF ~c.met THEN Err(clear_reentrancy(g.env), "ConditionsNotMet")
    ELSE
    LET e1 == set_escrow(g.env, escrow_id,
                         [escrow EXCEPT !.status = "Released"])
    IN  Ok(clear_reentrancy(e1), escrow_id, "Released",
           Some("release_tx_hash"))

release_escrow(env, escrow_id) ==
    LET g == check_reentrancy(env) IN
    IF g.err # "Ok" THEN Err(env, g.err)
    ELSE
    LET o == get_escrow(g.env, escrow_id) IN
    IF o = None THEN Err(g.env, "EscrowNotFound")
    ELSE
    LET escrow == o[1] IN
    IF escrow.status # "Active"
    THEN Err(clear_reentrancy(g.env), "EscrowNotFound")
    ELSE IF env.now > escrow.expires_at
    THEN Err(clear_reentrancy(g.env), "EscrowExpired")
    ELSE
    LET c == check_escrow_conditions(g.env, escrow_id) IN
    IF c.err # "Ok" THEN Err(g.env, c.err)
    ELSE IF ~c.met THEN Err(clear_reentrancy(g.env), "ConditionsNotMet")
    ELSE
    LET e1 == set_escrow(g.env, escrow_id,
                         [escrow EXCEPT !.status = "Released"])
    IN  Ok(clear_reentrancy(e1), escrow_id, "Released",
           Some("release_tx_hash"))

\* refund_escrow that takes the expiry time itself as expired.
refund_escrow_at_expiry(env, escrow_id) ==
    LET g == check_reentrancy(env) IN
    IF g.err # "Ok" THEN Err(env, g.err)
    ELSE
    LET o == get_escrow(g.env, escrow_id) IN
    IF o = None THEN Err(g.env, "EscrowNotFound")
    ELSE
    LET escrow == o[1] IN
    IF escrow.status # "Active"
    THEN Err(clear_reentrancy(g.env), "EscrowNotFound")
    ELSE IF env.now < escrow.expires_at
    THEN Err(clear_reentrancy(g.env), "ConditionsNotMet")
    ELSE
    LET e1 == set_escrow(g.env, escrow_id,
                         [escrow EXCEPT !.status = "Refunded"])
    IN  Ok(clear_reentrancy(e1), escrow_id, "Refunded",
           Some("refund_tx_hash"))

\* refund_escrow without the check that the escrow is Active.
refund_escrow_any_status(env, escrow_id) ==
    LET g == check_reentrancy(env) IN
    IF g.err # "Ok" THEN Err(env, g.err)
    ELSE
    LET o == get_escrow(g.env, escrow_id) IN
    IF o = None THEN Err(g.env, "EscrowNotFound")
    ELSE
    LET escrow == o[1] IN
    IF env.now <= escrow.expires_at
    THEN Err(clear_reentrancy(g.env), "ConditionsNotMet")
    ELSE
    LET e1 == set_escrow(g.env, escrow_id,
                         [escrow EXCEPT !.status = "Refunded"])
    IN  Ok(clear_reentrancy(e1), escrow_id, "Refunded",
           Some("refund_tx_hash"))

\* refund_escrow that stores the refunded escrow without its conditions.
refund_escrow_clears_conditions(env, escrow_id) ==
    LET g == check_reentrancy(env) IN
    IF g.err # "Ok" THEN Err(env, g.err)
    ELSE
    LET o == get_escrow(g.env, escrow_id) IN
    IF o = None THEN Err(g.env, "EscrowNotFound")
    ELSE
    LET escrow == o[1] IN
    IF escrow.status # "Active"
    THEN Err(clear_reentrancy(g.env), "EscrowNotFound")
    ELSE IF env.now <= escrow.expires_at
    THEN Err(clear_reentrancy(g.env), "ConditionsNotMet")
    ELSE
    LET e1 == set_escrow(g.env, escrow_id,
                         [escrow EXCEPT !.status = "Refunded",
                                         !.conditions = <<>>])
    IN  Ok(clear_reentrancy(e1), escrow_id, "Refunded",
           Some("refund_tx_hash"))

refund_escrow(env, escrow_id) ==
    LET g == check_reentrancy(env) IN
    IF g.err # "Ok" THEN Err(env, g.err)
    ELSE
    LET o == get_escrow(g.env, escrow_id) IN
    IF o = None THEN Err(g.env, "EscrowNotFound")
    ELSE
    LET escrow == o[1] IN
    IF escrow.status # "Active"
    THEN Err(clear_reentrancy(g.env), "EscrowNotFound")
    ELSE IF env.now <= escrow.expires_at
    THEN Err(clear_reentrancy(g.env), "ConditionsNotMet")
    ELSE
    LET e1 == set_escrow(g.env, escrow_id,
                         [escrow EXCEPT !.status = "Refunded"])
    IN  Ok(clear_reentrancy(e1), escrow_id, "Refunded",
           Some("refund_tx_hash"))

\* process_escrow without the automatic refund of an expired escrow.
process_escrow_without_refund(env, escrow_id) ==
    LET o == get_escrow(env, escrow_id) IN
    IF o = None THEN Err(env, "EscrowNotFound")
    ELSE
    LET escrow == o[1] IN
    IF escrow.status # "Active" THEN Err(env, "EscrowNotFound")
    ELSE
    LET c == check_escrow_conditions(env, escrow_id) IN
    IF c.err # "Ok" THEN Err(env, c.err)
    ELSE IF c.met THEN release_escrow(env, escrow_id)
    ELSE Ok(env, escrow_id, "Active", None)

\* process_escrow that reports an expired escrow as Active and leaves the
\* refund to a call of refund_escrow.
process_escrow_waits_for_refund(env, escrow_id) ==
    LET o == get_escrow(env, escrow_id) IN
    IF o = None THEN Err(env, "EscrowNotFound")
    ELSE
    LET escrow == o[1] IN
    IF escrow.status # "Active" THEN Err(env, "EscrowNotFound")
    ELSE IF env.now > escrow.expires_at
    THEN Ok(env, escrow_id, "Active", None)
    ELSE
    LET c == check_escrow_conditions(env, escrow_id) IN
    IF c.err # "Ok" THEN Err(env, c.err)
    ELSE IF c.met THEN release_escrow(env, escrow_id)
    ELSE Ok(env, escrow_id, "Active", None)

process_escrow(env, escrow_id) ==
    LET o == get_escrow(env, escrow_id) IN
    IF o = None THEN Err(env, "EscrowNotFound")
    ELSE
    LET escrow == o[1] IN
    IF escrow.status # "Active" THEN Err(env, "EscrowNotFound")
    ELSE IF env.now > escrow.expires_at THEN refund_escrow(env, escrow_id)
    ELSE
    LET c == check_escrow_conditions(env, escrow_id) IN
    IF c.err # "Ok" THEN Err(env, c.err)
    ELSE IF c.met THEN release_escrow(env, escrow_id)
    ELSE Ok(env, escrow_id, "Active", None)

get_escrow_details(env, escrow_id) ==
    LET o == get_escrow(env, escrow_id) IN
    IF o = None THEN Err(env, "EscrowNotFound")
    ELSE OkRecord(env, o[1])

\* create_invoice that accepts a due date equal to the current time.
create_invoice_due_now_allowed(env, creator, client, amount, due_date) ==
    LET g == check_reentrancy(env) IN
    IF g.err # "Ok" THEN Err(env, g.err)
    ELSE
    LET v == FirstError(<< validate_address(creator),
                           validate_address(client),
                           validate_amount(amount) >>) IN
    IF v # "Ok" THEN Err(g.env, v)
    ELSE IF due_date < env.now
    THEN Err(clear_reentrancy(g.env), "InvalidAmount")
    ELSE
    LET a == get_next_invoice_id(g.env)
        invoice ==
            [ id |-> a.id, creator |-> creator, client |-> client,
              amount |-> amount, status |-> "Draft",
              created_at |-> env.now, due_date |-> due_date,
              approved_at |-> None ]
        e1 == set_invoice(a.env, a.id, invoice)
    IN  Ok(clear_reentrancy(e1), a.id, "Draft", None)

\* create_invoice without the check of the due date.
create_invoice_due_unchecked(env, creator, client, amount, due_date) ==
    LET g == check_reentrancy(env) IN
    IF g.err # "Ok" THEN Err(env, g.err)
    ELSE
    LET v == FirstError(<< validate_address(creator),
                           validate_address(client),
                           validate_amount(amount) >>) IN
    IF v # "Ok" THEN Err(g.env, v)
    ELSE
    LET a == get_next_invoice_id(g.env)
        invoice ==
            [ id |-> a.id, creator |-> creator, client |-> client,
              amount |-> amount, status |-> "Draft",
              created_at |-> env.now, due_date |-> due_date,
              approved_at |-> None ]
        e1 == set_invoice(a.env, a.id, invoice)
    IN  Ok(clear_reentrancy(e1), a.id, "Draft", None)

create_invoice(env, creator, client, amount, due_date) ==
    LET g == check_reentrancy(env) IN
    IF g.err # "Ok" THEN Err(env, g.err)
    ELSE
    LET v == FirstError(<< validate_address(creator),
                           validate_address(client),
                           validate_amount(amount) >>) IN
    IF v # "Ok" THEN Err(g.env, v)
    ELSE IF due_date <= env.now
    THEN Err(clear_reentrancy(g.env), "InvalidAmount")
    ELSE
    LET a == get_next_invoice_id(g.env)
        invoice ==
            [ id |-> a.id, creator |-> creator, client |-> client,
              amount |-> amount, status |-> "Draft",
              created_at |-> env.now, due_date |-> due_date,
              approved_at |-> None ]
        e1 == set_invoice(a.env, a.id, invoice)
    IN  Ok(clear_reentrancy(e1), a.id, "Draft", None)

\* approve_invoice that does not stamp the approval time.
approve_invoice_without_timestamp(env, invoice_id, client) ==
    LET g == check_reentrancy(env) IN
    IF g.err # "Ok" THEN Err(env, g.err)
    ELSE
    LET o == storage_get_invoice(g.env, invoice_id) IN
    IF o = None THEN Err(g.env, "InvoiceNotFound")
    ELSE
    LET invoice == o[1] IN
    IF invoice.client # client
    THEN Err(clear_reentrancy(g.env), "Unauthorized")
    ELSE IF invoice.status # "Sent" /\ invoice.status # "Draft"
    THEN Err(clear_reentrancy(g.env), "InvoiceAlreadyApproved")
    ELSE IF env.now > invoice.due_date
    THEN Err(clear_reentrancy(
                 set_invoice(g.env, invoice_id,
                             [invoice EXCEPT !.status = "Expired"])),
             "InvoiceExpired")
    ELSE
    LET e1 == set_invoice(g.env, invoice_id,
                          [invoice EXCEPT !.status = "Approved"])
    IN  Ok(clear_reentrancy(e1), invoice_id, "Approved", None)

\* approve_invoice without the check that the caller is the stored client.
approve_invoice_any_client(env, invoice_id, client) ==
    LET g == check_reentrancy(env) IN
    IF g.err # "Ok" THEN Err(env, g.err)
    ELSE
    LET o == storage_get_invoice(g.env, invoice_id) IN
    IF o = None THEN Err(g.env, "InvoiceNotFound")
    ELSE
    LET invoice == o[1] IN
    IF validate_signature(client) # "Ok"
    THEN Err(g.env, validate_signature(client))
    ELSE IF invoice.status # "Sent" /\ invoice.status # "Draft"
    THEN Err(clear_reentrancy(g.env), "InvoiceAlreadyApproved")
    ELSE IF env.now > invoice.due_date
    THEN Err(clear_reentrancy(
                 set_invoice(g.env, invoice_id,
                             [invoice EXCEPT !.status = "Expired"])),
             "InvoiceExpired")
    ELSE
    LET e1 == set_invoice(g.env, invoice_id,
                          [invoice EXCEPT !.status = "Approved",
                                          !.approved_at = Some(env.now)])
    IN  Ok(clear_reentrancy(e1), invoice_id, "Approved", None)

approve_invoice(env, invoice_id, client) ==
    LET g == check_reentrancy(env) IN
    IF g.err # "Ok" THEN Err(env, g.err)
    ELSE
    LET o == storage_get_invoice(g.env, invoice_id) IN
    IF o = None THEN Err(g.env, "InvoiceNotFound")
    ELSE
    LET invoice == o[1] IN
    IF validate_signature(client) # "Ok"
    THEN Err(g.env, validate_signature(client))
    ELSE IF invoice.client # client
    THEN Err(clear_reentrancy(g.env), "Unauthorized")
    ELSE IF invoice.status # "Sent" /\ invoice.status # "Draft"
    THEN Err(clear_reentrancy(g.env), "InvoiceAlreadyApproved")
    ELSE IF env.now > invoice.due_date
    THEN Err(clear_reentrancy(
                 set_invoice(g.env, invoice_id,
                             [invoice EXCEPT !.status = "Expired"])),
             "InvoiceExpired")
    ELSE
    LET e1 == set_invoice(g.env, invoice_id,
                          [invoice EXCEPT !.status = "Approved",
                                          !.approved_at = Some(env.now)])
    IN  Ok(clear_reentrancy(e1), invoice_id, "Approved", None)

\* execute_invoice without the check that the invoice is Approved.
execute_invoice_any_status(env, invoice_id) ==
    LET g == check_reentrancy(env) IN
    IF g.err # "Ok" THEN Err(env, g.err)
    ELSE
    LET o == storage_get_invoice(g.env, invoice_id) IN
    IF o = None THEN Err(g.env, "InvoiceNotFound")
    ELSE
    LET invoice == o[1] IN
    IF env.now > invoice.due_date
    THEN Err(clear_reentrancy(
                 set_invoice(g.env, invoice_id,
                             [invoice EXCEPT !.status = "Expired"])),
             "InvoiceExpired")
    ELSE IF validate_balance(invoice.client, invoice.amount) # "Ok"
    THEN Err(g.env, validate_balance(invoice.client, invoice.amount))
    ELSE
    LET e1 == set_invoice(g.env, invoice_id,
                          [invoice EXCEPT !.status = "Executed"])
    IN  Ok(clear_reentrancy(e1), invoice_id, "Executed",
           Some("invoice_payment_tx_hash"))

\* execute_invoice without the check of the due date.
execute_invoice_ignores_due_date(env, invoice_id) ==
    LET g == check_reentrancy(env) IN
    IF g.err # "Ok" THEN Err(env, g.err)
    ELSE
    LET o == storage_get_invoice(g.env, invoice_id) IN
    IF o = None THEN Err(g.env, "InvoiceNotFound")
    ELSE
    LET invoice == o[1] IN
    IF invoice.status # "Approved"
    THEN Err(clear_reentrancy(g.env), "Unauthorized")
    ELSE IF validate_balance(invoice.client, invoice.amount) # "Ok"
    THEN Err(g.env, validate_balance(invoice.client, invoice.amount))
    ELSE
    LET e1 == set_invoice(g.env, invoice_id,
                          [invoice EXCEPT !.status = "Executed"])
    IN  Ok(clear_reentrancy(e1), invoice_id, "Executed",
           Some("invoice_payment_tx_hash"))

execute_invoice(env, invoice_id) ==
    LET g == check_reentrancy(env) IN
    IF g.err # "Ok" THEN Err(env, g.err)
    ELSE
    LET o == storage_get_invoice(g.env, invoice_id) IN
    IF o = None THEN Err(g.env, "InvoiceNotFound")
    ELSE
    LET invoice == o[1] IN
    IF invoice.status # "Approved"
    THEN Err(clear_reentrancy(g.env), "Unauthorized")
    ELSE IF env.now > invoice.due_date
    THEN Err(clear_reentrancy(
                 set_invoice(g.env, invoice_id,
                             [invoice EXCEPT !.status = "Expired"])),
             "InvoiceExpired")
    ELSE IF validate_balance(invoice.client, invoice.amount) # "Ok"
    THEN Err(g.env, validate_balance(invoice.client, invoice.amount))
    ELSE
    LET e1 == set_invoice(g.env, invoice_id,
                          [invoice EXCEPT !.status = "Executed"])
    IN  Ok(clear_reentrancy(e1), invoice_id, "Executed",
           Some("invoice_payment_tx_hash"))

\* reject_invoice without the check that the invoice is Draft or Sent.
reject_invoice_any_status(env, invoice_id, client) ==
    LET g == check_reentrancy(env) IN
    IF g.err # "Ok" THEN Err(env, g.err)
    ELSE
    LET o == storage_get_invoice(g.env, invoice_id) IN
    IF o = None THEN Err(g.env, "InvoiceNotFound")
    ELSE
    LET invoice == o[1] IN
    IF validate_signature(client) # "Ok"
    THEN Err(g.env, validate_signature(client))
    ELSE IF invoice.client # client
    THEN Err(clear_reentrancy(g.env), "Unauthorized")
    ELSE
    LET e1 == set_invoice(g.env, invoice_id,
                          [invoice EXCEPT !.status = "Rejected"])
    IN  Ok(clear_reentrancy(e1), invoice_id, "Rejected", None)

\* reject_invoice that expires an overdue invoice instead of rejecting it.
reject_invoice_expires_overdue(env, invoice_id, client) ==
    LET g == check_reentrancy(env) IN
    IF g.err # "Ok" THEN Err(env, g.err)
    ELSE
    LET o == storage_get_invoice(g.env, invoice_id) IN
    IF o = None THEN Err(g.env, "InvoiceNotFound")
    ELSE
    LET invoice == o[1] IN
    IF validate_signature(client) # "Ok"
    THEN Err(g.env, validate_signature(client))
    ELSE IF invoice.client # client
    THEN Err(clear_reentrancy(g.env), "Unauthorized")
    ELSE IF invoice.status # "Sent" /\ invoice.status # "Draft"
    THEN Err(clear_reentrancy(g.env), "Unauthorized")
    ELSE IF env.now > invoice.due_date
    THEN Err(clear_reentrancy(
                 set_invoice(g.env, invoice_id,
                             [invoice EXCEPT !.status = "Expired"])),
             "InvoiceExpired")
    ELSE
    LET e1 == set_invoice(g.env, invoice_id,
                          [invoice EXCEPT !.status = "Rejected"])
    IN  Ok(clear_reentrancy(e1), invoice_id, "Rejected", None)

reject_invoice(env, invoice_id, client) ==
    LET g == check_reentrancy(env) IN
    IF g.err # "Ok" THEN Err(env, g.err)
    ELSE
    LET o == storage_get_invoice(g.env, invoice_id) IN
    IF o = None THEN Err(g.env, "InvoiceNotFound")
    ELSE
    LET invoice == o[1] IN
    IF validate_signature(client) # "Ok"
    THEN Err(g.env, validate_signature(client))
    ELSE IF invoice.client # client
    THEN Err(clear_reentrancy(g.env), "Unauthorized")
    ELSE IF invoice.status # "Sent" /\ invoice.status # "Draft"
    THEN Err(clear_reentrancy(g.env), "Unauthorized")
    ELSE
    LET e1 == set_invoice(g.env, invoice_id,
                          [invoice EXCEPT !.status = "Rejected"])
    IN  Ok(clear_reentrancy(e1), invoice_id, "Rejected", None)

\* check_invoice_expiration that expires an invoice of any status.
check_invoice_expiration_any_status(env, invoice_id) ==
    LET o == storage_get_invoice(env, invoice_id) IN
    IF o = None THEN Err(env, "InvoiceNotFound")
    ELSE
    LET invoice == o[1] IN
    IF env.now > invoice.due_date
    THEN Ok(set_invoice(env, invoice_id,
                        [invoice EXCEPT !.status = "Expired"]),
            invoice_id, "Expired", None)
    ELSE Ok(env, invoice_id, invoice.status, None)

\* check_invoice_expiration that reports the expiry without storing it.
check_invoice_expiration_not_stored(env, invoice_id) ==
    LET o == storage_get_invoice(env, invoice_id) IN
    IF o = None THEN Err(env, "InvoiceNotFound")
    ELSE
    LET invoice == o[1] IN
    IF invoice.status # "Sent" /\ invoice.status # "Approved"
    THEN Ok(env, invoice_id, invoice.status, None)
    ELSE IF env.now > invoice.due_date
    THEN Ok(env, invoice_id, "Expired", None)
    ELSE Ok(env, invoice_id, invoice.status, None)

check_invoice_expiration(env, invoice_id) ==
    LET o == storage_get_invoice(env, invoice_id) IN
    IF o = None THEN Err(env, "InvoiceNotFound")
    ELSE
    LET invoice == o[1] IN
    IF invoice.status # "Sent" /\ invoice.status # "Approved"
    THEN Ok(env, invoice_id, invoice.status, None)
    ELSE IF env.now > invoice.due_date
    THEN Ok(set_invoice(env, invoice_id,
                        [invoice EXCEPT !.status = "Expired"]),
            invoice_id, "Expired", None)
    ELSE Ok(env, invoice_id, invoice.status, None)

get_invoice(env, invoice_id) ==
    LET o == storage_get_invoice(env, invoice_id) IN
    IF o = None THEN Err(env, "InvoiceNotFound")
    ELSE OkRecord(env, o[1])

\* mark_invoice_sent without the check that the caller is the stored creator.
mark_invoice_sent_any_caller(env, invoice_id, creator) ==
    LET o == storage_get_invoice(env, invoice_id) IN
    IF o = None THEN Err(env, "InvoiceNotFound")
    ELSE
    LET invoice == o[1] IN
    IF invoice.status # "Draft" THEN Err(env, "Unauthorized")
    ELSE Ok(set_invoice(env, invoice_id, [invoice EXCEPT !.status = "Sent"]),
            invoice_id, "Sent", None)

mark_invoice_sent(env, invoice_id, creator) ==
    LET o == storage_get_invoice(env, invoice_id) IN
    IF o = None THEN Err(env, "InvoiceNotFound")
    ELSE
    LET invoice == o[1] IN
    IF invoice.creator # creator THEN Err(env, "Unauthorized")
    ELSE IF invoice.status # "Draft" THEN Err(env, "Unauthorized")
    ELSE Ok(set_invoice(env, invoice_id, [invoice EXCEPT !.status = "Sent"]),
            invoice_id, "Sent", None)

\* ------------------------------------------------------------- the host
\* The storage after an invocation entered with storage env that gave r:
\* the host keeps the writes of an invocation that returns Ok and discards
\* those of one that returns an error.
Committed(env, r) == IF r.err = "Ok" THEN r.env ELSE env

\* The storage inside a guarded function after its check_reentrancy: what
\* an invocation nested in that function would find.
During(env) == check_reentrancy(env).env

\* The host runs one invocation at a time, on the storage the invocation
\* before it committed.
Call(r) ==
    LET e == Committed(Env, r) IN
    /\ reentry' = e.reentry
    /\ admin' = e.admin
    /\ tx_count' = e.tx_count
    /\ esc_count' = e.esc_count
    /\ inv_count' = e.inv_count
    /\ transactions' = e.transactions
    /\ escrows' = e.escrows
    /\ invoices' = e.invoices
    /\ now' = e.now

Records == tx_count + esc_count + inv_count

Init ==
    /\ reentry = FALSE
    /\ admin = None
    /\ tx_count = 0
    /\ esc_count = 0
    /\ inv_count = 0
    /\ transactions = <<>>
    /\ escrows = <<>>
    /\ invoices = <<>>
    /\ now = 0

\* The ledger clock advances between calls.
AdvanceLedger ==
    /\ now < MaxTime
    /\ now' = now + 1
    /\ UNCHANGED <<reentry, admin, tx_count, esc_count, inv_count,
                   transactions, escrows, invoices>>

Initialize == \E a \in Creators : Call(initialize(Env, a))

Version == Call(version(Env))

ExecuteTransaction ==
    /\ Records < MaxRecords
    /\ \E s \in Senders, r \in Recipients, a \in AmountInputs :
          Call(execute_transaction(Env, s, r, a))

ExecuteP2pTransaction ==
    /\ Records < MaxRecords
    /\ \E s \in Senders, r \in Recipients, a \in AmountInputs :
          Call(execute_p2p_transaction(Env, s, r, a))

GetTransaction ==
    \E id \in IdInputs : Call(get_transaction(Env, id))

GetTransactionHistory ==
    \E a \in Address :
        Call(get_transaction_history(Env, a))

CreateEscrow ==
    /\ Records < MaxRecords
    /\ \E s \in Senders, r \in Recipients, a \in AmountInputs,
          c \in ConditionInputs, t \in TimeInputs(now) :
          Call(create_escrow(Env, s, r, a, c, t))

CheckEscrowConditions ==
    \E id \in IdInputs :
        Call(check_escrow_conditions(Env, id))

ReleaseEscrow ==
    \E id \in IdInputs : Call(release_escrow(Env, id))

RefundEscrow ==
    \E id \in IdInputs : Call(refund_escrow(Env, id))

ProcessEscrow ==
    \E id \in IdInputs : Call(process_escrow(Env, id))

GetEscrowDetails ==
    \E id \in IdInputs :
        Call(get_escrow_details(Env, id))

CreateInvoice ==
    /\ Records < MaxRecords
    /\ \E c \in Creators, k \in Clients, a \in AmountInputs,
          t \in TimeInputs(now) :
          Call(create_invoice(Env, c, k, a, t))

MarkInvoiceSent ==
    \E id \in IdInputs, c \in Address :
        Call(mark_invoice_sent(Env, id, c))

ApproveInvoice ==
    \E id \in IdInputs, c \in Address :
        Call(approve_invoice(Env, id, c))

ExecuteInvoice ==
    \E id \in IdInputs : Call(execute_invoice(Env, id))

RejectInvoice ==
    \E id \in IdInputs, c \in Address :
        Call(reject_invoice(Env, id, c))

CheckInvoiceExpiration ==
    \E id \in IdInputs :
        Call(check_invoice_expiration(Env, id))

GetInvoice ==
    \E id \in IdInputs : Call(get_invoice(Env, id))

Next ==
    \/ AdvanceLedger
    \/ Initialize
    \/ Version
    \/ ExecuteTransaction
    \/ ExecuteP2pTransaction
    \/ GetTransaction
    \/ GetTransactionHistory
    \/ CreateEscrow
    \/ CheckEscrowConditions
    \/ ReleaseEscrow
    \/ RefundEscrow
    \/ ProcessEscrow
    \/ GetEscrowDetails
    \/ CreateInvoice
    \/ MarkInvoiceSent
    \/ ApproveInvoice
    \/ ExecuteInvoice
    \/ RejectInvoice
    \/ CheckInvoiceExpiration
    \/ GetInvoice

Spec == Init /\ [][Next]_vars

\* The contract used for transactions alone.
NextTransaction ==
    \/ AdvanceLedger
    \/ Initialize
    \/ ExecuteTransaction
    \/ ExecuteP2pTransaction
    \/ GetTransaction
    \/ GetTransactionHistory

SpecTransaction == Init /\ [][NextTransaction]_vars

\* The contract used for escrows alone.
NextEscrow ==
    \/ AdvanceLedger
    \/ CreateEscrow
    \/ CheckEscrowConditions
    \/ ReleaseEscrow
    \/ RefundEscrow
    \/ ProcessEscrow
    \/ GetEscrowDetails

SpecEscrow == Init /\ [][NextEscrow]_vars

\* The escrows with process_escrow invoked again and again on every id: a
\* call of process_escrow that would change the state is not put off for
\* ever.
FairSpecEscrow ==
    /\ SpecEscrow
    /\ \A id \in IdInputs : WF_vars(Call(process_escrow(Env, id)))

\* The contract used for invoices alone.
NextInvoice ==
    \/ AdvanceLedger
    \/ CreateInvoice
    \/ MarkInvoiceSent
    \/ ApproveInvoice
    \/ ExecuteInvoice
    \/ RejectInvoice
    \/ CheckInvoiceExpiration
    \/ GetInvoice

SpecInvoice == Init /\ [][NextInvoice]_vars

\* ------------------------------------------------------------- calls
\* P holds of the value returned by every call, made in the storage env, of
\* a function that starts with check_reentrancy.
GuardedCallsIn(env, P(_)) ==
    /\ \A s \in Senders, r \in Recipients, a \in AmountInputs :
          /\ P(execute_transaction(env, s, r, a))
          /\ P(execute_p2p_transaction(env, s, r, a))
          /\ \A c \in ConditionInputs, t \in TimeInputs(env.now) :
                P(create_escrow(env, s, r, a, c, t))
    /\ \A c \in Creators, k \in Clients, a \in AmountInputs,
          t \in TimeInputs(env.now) :
          P(create_invoice(env, c, k, a, t))
    /\ \A id \in IdInputs :
          /\ P(release_escrow(env, id))
          /\ P(refund_escrow(env, id))
          /\ P(execute_invoice(env, id))
          /\ \A c \in Address :
                /\ P(approve_invoice(env, id, c))
                /\ P(reject_invoice(env, id, c))

\* P holds of the value returned by every call of the other public
\* functions, made in the storage env.
UnguardedCallsIn(env, P(_)) ==
    /\ \A a \in Creators : P(initialize(env, a))
    /\ P(version(env))
    /\ \A a \in Address : P(get_transaction_history(env, a))
    /\ \A id \in IdInputs :
          /\ P(get_transaction(env, id))
          /\ P(check_escrow_conditions(env, id))
          /\ P(process_escrow(env, id))
          /\ P(get_escrow_details(env, id))
          /\ P(check_invoice_expiration(env, id))
          /\ P(get_invoice(env, id))
          /\ \A c \in Address : P(mark_invoice_sent(env, id, c))

PublicCallsIn(env, P(_)) ==
    GuardedCallsIn(env, P) /\ UnguardedCallsIn(env, P)

\* P holds of the value returned by every call of a function that starts
\* with check_reentrancy, made in the current state.
GuardedCalls(P(_)) ==
    /\ \A s \in Senders, r \in Recipients, a \in AmountInputs :
          /\ P(execute_transaction(Env, s, r, a))
          /\ P(execute_p2p_transaction(Env, s, r, a))
          /\ \A c \in ConditionInputs, t \in TimeInputs(now) :
                P(create_escrow(Env, s, r, a, c, t))
    /\ \A c \in Creators, k \in Clients, a \in AmountInputs,
          t \in TimeInputs(now) :
          P(create_invoice(Env, c, k, a, t))
    /\ \A id \in IdInputs :
          /\ P(release_escrow(Env, id))
          /\ P(refund_escrow(Env, id))
          /\ P(execute_invoice(Env, id))
          /\ \A c \in Address :
                /\ P(approve_invoice(Env, id, c))
                /\ P(reject_invoice(Env, id, c))

\* P holds of the value returned by every call of the other public
\* functions, made in the current state.
UnguardedCalls(P(_)) ==
    /\ \A a \in Creators : P(initialize(Env, a))
    /\ P(version(Env))
    /\ \A a \in Address : P(get_transaction_history(Env, a))
    /\ \A id \in IdInputs :
          /\ P(get_transaction(Env, id))
          /\ P(check_escrow_conditions(Env, id))
          /\ P(process_escrow(Env, id))
          /\ P(get_escrow_details(Env, id))
          /\ P(check_invoice_expiration(Env, id))
          /\ P(get_invoice(Env, id))
          /\ \A c \in Address : P(mark_invoice_sent(Env, id, c))

PublicCalls(P(_)) == GuardedCalls(P) /\ UnguardedCalls(P)

\* The records and counters of an environment.
Store(env) ==
    << env.tx_count, env.esc_count, env.inv_count,
       env.transactions, env.escrows, env.invoices >>

\* The environment at a later ledger time.
At(env, t) == [env EXCEPT !.now = t]

EscrowTerminal == {"Released", "Refunded"}
InvoiceTerminal == {"Executed", "Rejected", "Expired"}

\* ------------------------------------------------------------- claims

\* C1: after every public operation invoked while the reentrancy flag is
\* unset the flag is unset again, on success and on every error return, so
\* no guarded call made between operations fails with ReentrancyDetected.
C1_FlagClearAfterEveryCall ==
    /\ [](~reentry /\ PublicCalls(LAMBDA x :
                          /\ ~Committed(Env, x).reentry
                          /\ x.err # "ReentrancyDetected"
                          /\ x.err = "Ok" => ~x.env.reentry))
    /\ [][~reentry']_vars

C1_Witness ==
    /\ ~reentry
    /\ tx_count > 0
    /\ \E s \in Senders, r \in Recipients :
          LET x == execute_transaction(Env, s, r, 0)
              y == execute_transaction(Committed(Env, x), s, r,
                                       I128_MAX \div 2)
          IN  /\ x.err = "InvalidAmount"
              /\ ~Committed(Env, x).reentry
              /\ y.err = "Ok"
    /\ \E id \in IdInputs :
          /\ id \notin DOMAIN escrows
          /\ release_escrow(Env, id).err = "EscrowNotFound"

\* C2: when the reentrancy flag is already set (an invocation nested in an
\* outer guarded operation), every guarded operation returns
\* ReentrancyDetected, changes no record and no counter, and leaves the flag
\* set.
C2_GuardedCallsRejectedWhileFlagSet ==
    /\ During(Env).reentry
    /\ GuardedCallsIn(During(Env),
                      LAMBDA r : /\ r.err = "ReentrancyDetected"
                                 /\ r.env = During(Env))

C2_Witness ==
    /\ esc_count > 0
    /\ inv_count > 0
    /\ escrows[1].status = "Active"
    /\ release_escrow(Env, 1).err = "Ok"
    /\ release_escrow(During(Env), 1).err = "ReentrancyDetected"

\* C3: while the reentrancy flag is set (inside an outer guarded
\* operation), no public operation changes any escrow, invoice or
\* transaction record or any counter.
C3_NoChangeWhileFlagSet ==
    PublicCallsIn(During(Env), LAMBDA x : Store(x.env) = Store(Env))

\* C4: once an escrow is Released or Refunded, release_escrow and
\* refund_escrow on it return an error, and no public operation changes its
\* status.
C4_EscrowTerminal ==
    \A id \in DOMAIN escrows :
        escrows[id].status \in EscrowTerminal =>
            /\ release_escrow(Env, id).err # "Ok"
            /\ refund_escrow(Env, id).err # "Ok"
            /\ PublicCalls(LAMBDA r :
                   /\ id \in DOMAIN r.env.escrows
                   /\ r.env.escrows[id].status = escrows[id].status)

C4_Witness ==
    /\ ~reentry
    /\ \E id \in DOMAIN escrows :
          /\ escrows[id].status = "Released"
          /\ now <= escrows[id].expires_at
    /\ \E id \in DOMAIN escrows : escrows[id].status = "Refunded"

\* C5: for an Active escrow refund_escrow fails whenever now <= expires_at
\* and release_escrow fails whenever now > expires_at; no public operation
\* makes an escrow Released after its expiry, or Refunded at or before it.
C5_ReleaseRefundByTime ==
    \A id \in DOMAIN escrows :
        escrows[id].status = "Active" =>
            /\ now <= escrows[id].expires_at =>
                  /\ refund_escrow(Env, id).err # "Ok"
                  /\ refund_escrow(Env, id).env.escrows = escrows
            /\ now > escrows[id].expires_at =>
                  /\ release_escrow(Env, id).err # "Ok"
                  /\ release_escrow(Env, id).env.escrows = escrows
            /\ PublicCalls(LAMBDA r :
                   /\ r.env.escrows[id].status = "Released"
                         => now <= escrows[id].expires_at
                   /\ r.env.escrows[id].status = "Refunded"
                         => now > escrows[id].expires_at)

C5_Witness ==
    /\ ~reentry
    /\ \E id \in DOMAIN escrows :
          /\ escrows[id].status = "Active"
          /\ now = escrows[id].expires_at
    /\ \E id \in DOMAIN escrows :
          /\ escrows[id].status = "Active"
          /\ now > escrows[id].expires_at

\* C6: for each kind the ids returned by successive allocations are strictly
\* increasing and never repeat, and no public operation, failing ones
\* included, decreases a counter.
C6_IdsStrictlyIncrease ==
    /\ PublicCalls(LAMBDA r :
           /\ r.env.tx_count >= tx_count
           /\ r.env.esc_count >= esc_count
           /\ r.env.inv_count >= inv_count)
    /\ \A s \in Senders, r \in Recipients, a \in AmountInputs :
          /\ \A x \in { execute_transaction(Env, s, r, a),
                        execute_p2p_transaction(Env, s, r, a) } :
                x.err = "Ok" =>
                    /\ x.id > tx_count
                    /\ \A i \in DOMAIN transactions : i < x.id
                    /\ x.env.tx_count = x.id
          /\ \A c \in ConditionInputs, t \in TimeInputs(now) :
                LET x == create_escrow(Env, s, r, a, c, t) IN
                x.err = "Ok" =>
                    /\ x.id > esc_count
                    /\ \A i \in DOMAIN escrows : i < x.id
                    /\ x.env.esc_count = x.id
    /\ \A c \in Creators, k \in Clients, a \in AmountInputs,
          t \in TimeInputs(now) :
          LET x == create_invoice(Env, c, k, a, t) IN
          x.err = "Ok" =>
              /\ x.id > inv_count
              /\ \A i \in DOMAIN invoices : i < x.id
              /\ x.env.inv_count = x.id
    /\ get_next_transaction_id(get_next_transaction_id(Env).env).id
          > get_next_transaction_id(Env).id
    /\ get_next_escrow_id(get_next_escrow_id(Env).env).id
          > get_next_escrow_id(Env).id
    /\ get_next_invoice_id(get_next_invoice_id(Env).env).id
          > get_next_invoice_id(Env).id

C6_Witness ==
    /\ tx_count = 2
    /\ DOMAIN transactions = {1, 2}

\* C7: once an invoice is Executed, Rejected or Expired, approve_invoice and
\* execute_invoice on it return an error, and no public operation changes
\* its status.
C7_InvoiceTerminal ==
    \A id \in DOMAIN invoices :
        invoices[id].status \in InvoiceTerminal =>
            /\ \A c \in Address : approve_invoice(Env, id, c).err # "Ok"
            /\ execute_invoice(Env, id).err # "Ok"
            /\ PublicCalls(LAMBDA r :
                   /\ id \in DOMAIN r.env.invoices
                   /\ r.env.invoices[id].status = invoices[id].status)

C7_Witness ==
    /\ ~reentry
    /\ \E id \in DOMAIN invoices :
          /\ invoices[id].status = "Executed"
          /\ now > invoices[id].due_date
    /\ \E id \in DOMAIN invoices : invoices[id].status = "Rejected"

\* C8, on the calls that return InvoiceExpired: for an overdue invoice,
\* approve_invoice by the stored client on a Draft or Sent invoice, and
\* execute_invoice on an Approved invoice, return InvoiceExpired and leave
\* the invoice persisted with status Expired.
C8_OverdueAttemptExpires ==
    \A id \in DOMAIN invoices :
        now > invoices[id].due_date =>
            LET inv == invoices[id]
                a == approve_invoice(Env, id, inv.client)
                e == execute_invoice(Env, id)
            IN  /\ inv.status \in {"Draft", "Sent"} =>
                      /\ a.err = "InvoiceExpired"
                      /\ Committed(Env, a).invoices[id].status = "Expired"
                /\ inv.status = "Approved" =>
                      /\ e.err = "InvoiceExpired"
                      /\ Committed(Env, e).invoices[id].status = "Expired"

\* C9: with the flag unset, for every creator, client, valid amount and
\* due date after now, create_invoice, then mark_invoice_sent by the
\* creator, approve_invoice by the client and execute_invoice, at times up
\* to the due date, each succeed; the execute result is Executed with a
\* confirmation token and the stored invoice is Executed with the original
\* amount and the approval time set.
C9_InvoiceWorkflow ==
    ~reentry =>
        \A c \in Creators, k \in Clients, a \in AmountInputs,
           d \in (now + 1) .. (MaxTime + 1) :
            validate_amount(a) = "Ok" =>
                \A t1 \in now .. d : \A t2 \in t1 .. d : \A t3 \in t2 .. d :
                    LET r1 == create_invoice(Env, c, k, a, d)
                        r2 == mark_invoice_sent(At(r1.env, t1), r1.id, c)
                        r3 == approve_invoice(At(r2.env, t2), r1.id, k)
                        r4 == execute_invoice(At(r3.env, t3), r1.id)
                    IN  /\ r1.err = "Ok" /\ r1.status = "Draft"
                        /\ r2.err = "Ok" /\ r2.status = "Sent"
                        /\ r3.err = "Ok" /\ r3.status = "Approved"
                        /\ r4.err = "Ok" /\ r4.status = "Executed"
                        /\ r4.tx_hash # None
                        /\ r4.env.invoices[r1.id].status = "Executed"
                        /\ r4.env.invoices[r1.id].amount = a
                        /\ r4.env.invoices[r1.id].approved_at = Some(t2)
                        /\ ~r4.env.reentry

C9_Witness ==
    /\ ~reentry
    /\ \E id \in DOMAIN invoices :
          /\ invoices[id].status = "Executed"
          /\ invoices[id].approved_at # None
          /\ invoices[id].amount = I128_MAX \div 2

\* C10: each creation operation called with amount <= 0 or amount > MAX/2
\* returns InvalidAmount, stores no record and allocates no id, for each
\* call of any sequence of such calls.
C10_InvalidAmountRejected ==
    \A a \in AmountInputs, b \in AmountInputs :
        ((a <= 0 \/ a > I128_MAX \div 2) /\ (b <= 0 \/ b > I128_MAX \div 2))
        =>
            LET Rejected(x) ==
                    /\ x.err = "InvalidAmount"
                    /\ Store(x.env) = Store(Env)
                    /\ Committed(Env, x) = Env
            IN  /\ \A s \in Senders, r \in Recipients :
                      LET x == execute_transaction(Env, s, r, a) IN
                      /\ Rejected(x)
                      /\ Rejected(execute_p2p_transaction(Env, s, r, a))
                      /\ Rejected(execute_transaction(
                                      Committed(Env, x), s, r, b))
                      /\ Rejected(execute_p2p_transaction(
                                      Committed(Env, x), s, r, b))
                      /\ \A c \in ConditionInputs, t \in TimeInputs(now) :
                            /\ Rejected(create_escrow(Env, s, r, a, c, t))
                            /\ Rejected(create_escrow(
                                            Committed(Env, x), s, r, b, c, t))
                /\ \A c \in Creators, k \in Clients, t \in TimeInputs(now) :
                      LET x == create_invoice(Env, c, k, a, t) IN
                      /\ Rejected(x)
                      /\ Rejected(create_invoice(
                                      Committed(Env, x), c, k, b, t))

C10_Witness ==
    /\ tx_count = 1
    /\ inv_count = 1
    /\ execute_transaction(Env, "alice", "bob", 0).err = "InvalidAmount"
    /\ create_escrow(Env, "alice", "bob", (I128_MAX \div 2) + 1, <<>>,
                     now + 1).err = "InvalidAmount"
    /\ create_invoice(Env, "alice", "bob", -1, now + 1).err = "InvalidAmount"

\* C11: an escrow created with an empty condition sequence reports
\* check_escrow_conditions = true at every time now <= expires_at while its
\* status is Active.
C11_EmptyConditionsMet ==
    \A id \in DOMAIN escrows :
        (escrows[id].conditions = <<>> /\ escrows[id].status = "Active") =>
            \A t \in now .. escrows[id].expires_at :
                LET c == check_escrow_conditions(At(Env, t), id)
                IN  c.err = "Ok" /\ c.met

C11_Witness ==
    \E id \in DOMAIN escrows :
        /\ escrows[id].conditions = <<>>
        /\ escrows[id].status = "Active"
        /\ now = escrows[id].expires_at
        /\ check_escrow_conditions(Env, id).met

\* C12: the allocator never returns 0: every id returned for any kind is
\* at least 1, and in a fresh store the first id allocated for a kind is 1.
C12_AllocatorNeverZero ==
    /\ get_next_transaction_id(Env).id >= 1
    /\ get_next_escrow_id(Env).id >= 1
    /\ get_next_invoice_id(Env).id >= 1
    /\ tx_count = 0 => get_next_transaction_id(Env).id = 1
    /\ esc_count = 0 => get_next_escrow_id(Env).id = 1
    /\ inv_count = 0 => get_next_invoice_id(Env).id = 1
    /\ \A id \in DOMAIN transactions : id >= 1 /\ transactions[id].id = id
    /\ \A id \in DOMAIN escrows : id >= 1 /\ escrows[id].id = id
    /\ \A id \in DOMAIN invoices : id >= 1 /\ invoices[id].id = id

C12_Witness ==
    /\ DOMAIN escrows = {1}
    /\ esc_count = 1
    /\ DOMAIN invoices = {1}
    /\ inv_count = 1
    /\ tx_count = 0

\* C13: the Pending state of a transaction is never observable: after every
\* operation every stored transaction has status Confirmed, and no operation
\* changes or deletes a transaction stored before it.
C13_TransactionsConfirmedAndKept ==
    [][ /\ \A id \in DOMAIN transactions' :
              transactions'[id].status = "Confirmed"
        /\ \A id \in DOMAIN transactions :
              /\ id \in DOMAIN transactions'
              /\ transactions'[id] = transactions[id] ]_vars

C13_Witness ==
    /\ DOMAIN transactions = {1, 2}
    /\ transactions[1].status = "Confirmed"
    /\ transactions[2].status = "Confirmed"
    /\ now > transactions[2].timestamp

\* C14: a successful execute_transaction (resp. execute_p2p_transaction)
\* returns status Confirmed with a fresh id >= 1 and a non-empty confirmation
\* reference, and get_transaction of that id returns a record with the
\* call's sender, recipient and amount, kind Basic (resp. P2P) and status
\* Confirmed. A call with a valid amount that passes the guard succeeds.
C14_TransactionCreated ==
    \A s \in Senders, r \in Recipients, a \in AmountInputs :
        LET Created(x, kind) ==
                /\ (~reentry /\ validate_amount(a) = "Ok") => x.err = "Ok"
                /\ x.err = "Ok" =>
                    /\ validate_amount(a) = "Ok"
                    /\ x.status = "Confirmed"
                    /\ x.id >= 1
                    /\ x.id \notin DOMAIN transactions
                    /\ x.tx_hash # None
                    /\ x.tx_hash # Some("")
                    /\ LET g == get_transaction(x.env, x.id)
                       IN  /\ g.err = "Ok"
                           /\ g.rec # None
                           /\ g.rec[1].id = x.id
                           /\ g.rec[1].sender = s
                           /\ g.rec[1].recipient = r
                           /\ g.rec[1].amount = a
                           /\ g.rec[1].transaction_type = kind
                           /\ g.rec[1].status = "Confirmed"
        IN  /\ Created(execute_transaction(Env, s, r, a), "Basic")
            /\ Created(execute_p2p_transaction(Env, s, r, a), "P2P")

C14_Witness ==
    /\ \E id \in DOMAIN transactions :
          /\ transactions[id].transaction_type = "Basic"
          /\ get_transaction(Env, id).rec = Some(transactions[id])
    /\ \E id \in DOMAIN transactions :
          /\ transactions[id].transaction_type = "P2P"
          /\ transactions[id].status = "Confirmed"

\* C15: create_escrow with a valid amount and expires_at > now, admitted by
\* the guard, persists under a freshly allocated id an Active escrow holding
\* exactly the given sender, recipient, amount, conditions and expires_at;
\* with expires_at <= now it fails with InvalidAmount, stores no record and
\* allocates no id.
C15_CreateEscrow ==
    ~reentry =>
        \A s \in Senders, r \in Recipients, a \in AmountInputs,
           c \in ConditionInputs, t \in 0 .. (MaxTime + 1) :
            validate_amount(a) = "Ok" =>
                LET x == create_escrow(Env, s, r, a, c, t) IN
                IF t > now
                THEN /\ x.err = "Ok"
                     /\ x.status = "Active"
                     /\ x.id = esc_count + 1
                     /\ x.id \notin DOMAIN escrows
                     /\ DOMAIN x.env.escrows = DOMAIN escrows \cup {x.id}
                     /\ x.env.escrows[x.id] =
                            [ id |-> x.id, sender |-> s, recipient |-> r,
                              amount |-> a, conditions |-> c,
                              status |-> "Active", created_at |-> now,
                              expires_at |-> t ]
                     /\ \A id \in DOMAIN escrows :
                            x.env.escrows[id] = escrows[id]
                ELSE /\ x.err = "InvalidAmount"
                     /\ Store(x.env) = Store(Env)

C15_Witness ==
    /\ ~reentry
    /\ now > 0
    /\ \E id \in DOMAIN escrows :
          /\ escrows[id].status = "Active"
          /\ escrows[id].created_at = now
          /\ escrows[id].conditions # <<>>
          /\ escrows[id].expires_at = now + 1

\* C16: release_escrow on an existing escrow, admitted by the guard, checks
\* in this order: EscrowNotFound if the status is not Active; EscrowExpired
\* if now > expires_at; ConditionsNotMet if the conditions evaluate to
\* false; otherwise the status becomes Released and the result has status
\* Released and a confirmation token. On each failure nothing stored changes.
C16_ReleaseEscrowOrder ==
    ~reentry =>
        \A id \in DOMAIN escrows :
            LET e == escrows[id]
                x == release_escrow(Env, id)
                c == check_escrow_conditions(Env, id)
            IN  IF e.status # "Active"
                THEN x.err = "EscrowNotFound" /\ Store(x.env) = Store(Env)
                ELSE IF now > e.expires_at
                THEN x.err = "EscrowExpired" /\ Store(x.env) = Store(Env)
                ELSE IF ~c.met
                THEN x.err = "ConditionsNotMet" /\ Store(x.env) = Store(Env)
                ELSE /\ x.err = "Ok"
                     /\ x.status = "Released"
                     /\ x.tx_hash # None
                     /\ x.env.escrows =
                            [escrows EXCEPT ![id].status = "Released"]

C16_Witness ==
    /\ ~reentry
    /\ \E id \in DOMAIN escrows :
          /\ escrows[id].status # "Active"
          /\ now > escrows[id].expires_at
    /\ \E id \in DOMAIN escrows :
          /\ escrows[id].status = "Released"
          /\ escrows[id].conditions # <<>>

\* C17: refund_escrow on an existing escrow, admitted by the guard, fails
\* EscrowNotFound if the status is not Active and ConditionsNotMet if
\* now <= expires_at, nothing stored changing in both cases; otherwise the
\* status becomes Refunded, whatever the conditions, and the result has
\* status Refunded and a confirmation token.
C17_RefundEscrow ==
    ~reentry =>
        \A id \in DOMAIN escrows :
            LET e == escrows[id]
                x == refund_escrow(Env, id)
            IN  IF e.status # "Active"
                THEN x.err = "EscrowNotFound" /\ Store(x.env) = Store(Env)
                ELSE IF now <= e.expires_at
                THEN x.err = "ConditionsNotMet" /\ Store(x.env) = Store(Env)
                ELSE /\ x.err = "Ok"
                     /\ x.status = "Refunded"
                     /\ x.tx_hash # None
                     /\ x.env.escrows =
                            [escrows EXCEPT ![id].status = "Refunded"]

C17_Witness ==
    /\ ~reentry
    /\ \E id \in DOMAIN escrows :
          /\ escrows[id].status = "Refunded"
          /\ escrows[id].conditions # <<>>
    /\ \E id \in DOMAIN escrows :
          /\ escrows[id].status = "Released"
          /\ now > escrows[id].expires_at

\* C18: process_escrow on an Active escrow with the guard clear: if
\* now > expires_at the escrow becomes Refunded; else if all conditions
\* evaluate true it becomes Released; else the result is Active with no
\* token and nothing changes. On a non-Active or absent escrow it fails with
\* EscrowNotFound and changes nothing.
C18_ProcessEscrow ==
    \A id \in IdInputs :
        LET x == process_escrow(Env, id) IN
        IF id \notin DOMAIN escrows \/ escrows[id].status # "Active"
        THEN x.err = "EscrowNotFound" /\ x.env = Env
        ELSE ~reentry =>
            IF now > escrows[id].expires_at
            THEN /\ x.err = "Ok" /\ x.status = "Refunded"
                 /\ x.env.escrows =
                        [escrows EXCEPT ![id].status = "Refunded"]
            ELSE IF check_escrow_conditions(Env, id).met
            THEN /\ x.err = "Ok" /\ x.status = "Released"
                 /\ x.env.escrows =
                        [escrows EXCEPT ![id].status = "Released"]
            ELSE /\ x.err = "Ok" /\ x.status = "Active"
                 /\ x.tx_hash = None
                 /\ x.env = Env

C18_Witness ==
    /\ ~reentry
    /\ \E id \in DOMAIN escrows :
          /\ escrows[id].status = "Active"
          /\ now > escrows[id].expires_at
          /\ process_escrow(Env, id).status = "Refunded"
    /\ \E id \in DOMAIN escrows :
          /\ escrows[id].status = "Active"
          /\ now <= escrows[id].expires_at
          /\ process_escrow(Env, id).status = "Released"

\* C20: every change of an invoice's status is one of Draft->Sent,
\* Draft->Approved, Sent->Approved, Approved->Executed, Draft->Rejected,
\* Sent->Rejected, Sent->Expired, Approved->Expired; an invoice becomes
\* Expired only from Sent or Approved and only when now > due_date.
C20_InvoiceTransitions ==
    [][ \A id \in DOMAIN invoices :
            /\ id \in DOMAIN invoices'
            /\ invoices'[id].status # invoices[id].status =>
                /\ << invoices[id].status, invoices'[id].status >> \in
                       { << "Draft", "Sent" >>, << "Draft", "Approved" >>,
                         << "Sent", "Approved" >>,
                         << "Approved", "Executed" >>,
                         << "Draft", "Rejected" >>, << "Sent", "Rejected" >>,
                         << "Sent", "Expired" >>,
                         << "Approved", "Expired" >> }
                /\ invoices'[id].status = "Expired" =>
                       now > invoices[id].due_date ]_vars

C20_Witness ==
    /\ \E id \in DOMAIN invoices :
          /\ invoices[id].status = "Expired"
          /\ invoices[id].approved_at # None
    /\ \E id \in DOMAIN invoices :
          /\ invoices[id].status = "Draft"
          /\ now > invoices[id].due_date
          /\ approve_invoice(Env, id, invoices[id].client).err =
                 "InvoiceExpired"

\* C21: in every reachable state an invoice's approval timestamp is set if
\* and only if its status is Approved or Executed; an invoice whose status
\* is Draft, Sent, Rejected or Expired has no approval timestamp.
C21_ApprovedAtIffApproved ==
    \A id \in DOMAIN invoices :
        (invoices[id].approved_at # None) <=>
            (invoices[id].status \in {"Approved", "Executed"})

\* C22: check_invoice_expiration is idempotent: if the status is Sent or
\* Approved and now > due_date it sets the status to Expired, otherwise it
\* returns the current status and changes nothing (a Draft invoice is never
\* expired by it); a second call at the same time returns the same status as
\* the first and changes no state.
C22_CheckExpirationIdempotent ==
    \A id \in DOMAIN invoices :
        LET i == invoices[id]
            x == check_invoice_expiration(Env, id)
            y == check_invoice_expiration(x.env, id)
        IN  /\ x.err = "Ok"
            /\ IF i.status \in {"Sent", "Approved"} /\ now > i.due_date
               THEN /\ x.status = "Expired"
                    /\ x.env.invoices =
                           [invoices EXCEPT ![id].status = "Expired"]
                    /\ x.env.reentry = reentry
               ELSE /\ x.status = i.status
                    /\ x.env = Env
            /\ y.err = "Ok"
            /\ y.status = x.status
            /\ y.env = x.env

C22_Witness ==
    /\ \E id \in DOMAIN invoices :
          /\ invoices[id].status = "Approved"
          /\ now > invoices[id].due_date
          /\ check_invoice_expiration(Env, id).status = "Expired"
    /\ \E id \in DOMAIN invoices :
          /\ invoices[id].status = "Draft"
          /\ now > invoices[id].due_date
          /\ check_invoice_expiration(Env, id).status = "Draft"

\* C23: validation errors are returned before any mutation: any public
\* operation that returns an error other than InvoiceExpired leaves every
\* transaction, escrow and invoice record and every id counter exactly as
\* they were before the call.
C23_ErrorsLeaveStore ==
    LET Unchanged(x) ==
            x.err \notin {"Ok", "InvoiceExpired"} => Store(x.env) = Store(Env)
    IN  PublicCalls(Unchanged)

C23_Witness ==
    /\ ~reentry
    /\ \E s \in Senders, r \in Recipients, a \in AmountInputs,
          c \in ConditionInputs :
          /\ validate_amount(a) = "Ok"
          /\ create_escrow(Env, s, r, a, c, now).err = "InvalidAmount"
    /\ \E id \in DOMAIN invoices, k \in Clients :
          /\ invoices[id].status = "Approved"
          /\ reject_invoice(Env, id, k).err = "Unauthorized"
    /\ \E id \in DOMAIN escrows :
          release_escrow(Env, id).err = "EscrowExpired"

\* C24: approve_invoice, admitted by the guard, by the stored client on an
\* invoice with status Draft or Sent and now <= due_date sets the status to
\* Approved and approved_at to the current ledger time; a caller different
\* from the stored client gets Unauthorized, and a status outside
\* {Draft, Sent} gets InvoiceAlreadyApproved, the record being unchanged in
\* both error cases.
C24_ApproveInvoice ==
    ~reentry =>
        \A id \in DOMAIN invoices, c \in Address :
            LET i == invoices[id]
                x == approve_invoice(Env, id, c)
            IN  IF c # i.client
                THEN x.err = "Unauthorized" /\ Store(x.env) = Store(Env)
                ELSE IF i.status \notin {"Draft", "Sent"}
                THEN /\ x.err = "InvoiceAlreadyApproved"
                     /\ Store(x.env) = Store(Env)
                ELSE now <= i.due_date =>
                     /\ x.err = "Ok"
                     /\ x.status = "Approved"
                     /\ x.env.invoices =
                            [invoices EXCEPT
                                ![id].status = "Approved",
                                ![id].approved_at = Some(now)]

C24_Witness ==
    /\ ~reentry
    /\ \E id \in DOMAIN invoices :
          /\ invoices[id].status = "Approved"
          /\ invoices[id].approved_at = Some(now)
          /\ now > invoices[id].created_at
          /\ approve_invoice(Env, id, invoices[id].client).err =
                 "InvoiceAlreadyApproved"
          /\ approve_invoice(Env, id, invoices[id].creator).err =
                 "Unauthorized"
    /\ \E id \in DOMAIN invoices :
          /\ invoices[id].status = "Sent"
          /\ now <= invoices[id].due_date

\* C25: execute_invoice succeeds only on an invoice with status Approved and
\* now <= due_date, setting the status to Executed and returning a
\* confirmation token (and does succeed there when the guard admits it); on
\* any other status it fails with an error and leaves the record unchanged,
\* so no invoice is Executed without having been Approved.
C25_ExecuteOnlyApproved ==
    \A id \in DOMAIN invoices :
        LET i == invoices[id]
            x == execute_invoice(Env, id)
        IN  /\ x.err = "Ok" =>
                /\ i.status = "Approved"
                /\ now <= i.due_date
                /\ x.status = "Executed"
                /\ x.tx_hash # None
                /\ x.env.invoices =
                       [invoices EXCEPT ![id].status = "Executed"]
            /\ (~reentry /\ i.status = "Approved" /\ now <= i.due_date) =>
                   x.err = "Ok"
            /\ i.status # "Approved" =>
                   x.err # "Ok" /\ Store(x.env) = Store(Env)
            /\ i.status = "Executed" => i.approved_at # None

C25_Witness ==
    /\ ~reentry
    /\ \E id \in DOMAIN invoices :
          /\ invoices[id].status = "Executed"
          /\ invoices[id].approved_at # None
          /\ execute_invoice(Env, id).err = "Unauthorized"
    /\ \E id \in DOMAIN invoices :
          /\ invoices[id].status = "Approved"
          /\ now <= invoices[id].due_date
          /\ execute_invoice(Env, id).status = "Executed"

\* C26: mark_invoice_sent changes an invoice from Draft to Sent exactly when
\* the caller equals the stored creator and the status is Draft; with any
\* other caller or any other status it returns Unauthorized and leaves the
\* record unchanged.
C26_MarkInvoiceSent ==
    \A id \in DOMAIN invoices, c \in Address :
        LET i == invoices[id]
            x == mark_invoice_sent(Env, id, c)
        IN  IF c = i.creator /\ i.status = "Draft"
            THEN /\ x.err = "Ok"
                 /\ x.status = "Sent"
                 /\ x.env.invoices = [invoices EXCEPT ![id].status = "Sent"]
            ELSE /\ x.err = "Unauthorized"
                 /\ x.env = Env

C26_Witness ==
    /\ \E id \in DOMAIN invoices :
          /\ invoices[id].status = "Sent"
          /\ mark_invoice_sent(Env, id, invoices[id].creator).err =
                 "Unauthorized"
    /\ \E id \in DOMAIN invoices :
          /\ invoices[id].status = "Draft"
          /\ mark_invoice_sent(Env, id, invoices[id].client).err =
                 "Unauthorized"
          /\ mark_invoice_sent(Env, id, invoices[id].creator).status = "Sent"

\* C27: reject_invoice, admitted by the guard, changes an invoice to
\* Rejected exactly when the caller equals the stored client and the status
\* is Draft or Sent; with a different caller or any other status it fails
\* with Unauthorized and leaves the record unchanged.
C27_RejectInvoice ==
    ~reentry =>
        \A id \in DOMAIN invoices, c \in Address :
            LET i == invoices[id]
                x == reject_invoice(Env, id, c)
            IN  IF c = i.client /\ i.status \in {"Draft", "Sent"}
                THEN /\ x.err = "Ok"
                     /\ x.status = "Rejected"
                     /\ x.env.invoices =
                            [invoices EXCEPT ![id].status = "Rejected"]
                ELSE /\ x.err = "Unauthorized"
                     /\ Store(x.env) = Store(Env)

C27_Witness ==
    /\ ~reentry
    /\ \E id \in DOMAIN invoices :
          /\ invoices[id].status = "Rejected"
          /\ reject_invoice(Env, id, invoices[id].client).err =
                 "Unauthorized"
    /\ \E id \in DOMAIN invoices :
          /\ invoices[id].status = "Sent"
          /\ reject_invoice(Env, id, invoices[id].creator).err =
                 "Unauthorized"
          /\ reject_invoice(Env, id, invoices[id].client).status =
                 "Rejected"

\* C28: create_invoice with a valid amount and due_date > now, admitted by
\* the guard, persists under a freshly allocated id an invoice with status
\* Draft, no approval timestamp and the given creator, client, amount and
\* due_date; with due_date <= now it fails with InvalidAmount, stores no
\* record and allocates no id.
C28_CreateInvoice ==
    ~reentry =>
        \A c \in Creators, k \in Clients, a \in AmountInputs,
           d \in 0 .. (MaxTime + 1) :
            validate_amount(a) = "Ok" =>
                LET x == create_invoice(Env, c, k, a, d) IN
                IF d > now
                THEN /\ x.err = "Ok"
                     /\ x.status = "Draft"
                     /\ x.id = inv_count + 1
                     /\ x.id \notin DOMAIN invoices
                     /\ DOMAIN x.env.invoices = DOMAIN invoices \cup {x.id}
                     /\ x.env.invoices[x.id] =
                            [ id |-> x.id, creator |-> c, client |-> k,
                              amount |-> a, status |-> "Draft",
                              created_at |-> now, due_date |-> d,
                              approved_at |-> None ]
                     /\ \A id \in DOMAIN invoices :
                            x.env.invoices[id] = invoices[id]
                ELSE /\ x.err = "InvalidAmount"
                     /\ Store(x.env) = Store(Env)

C28_Witness ==
    /\ ~reentry
    /\ now > 0
    /\ \E id \in DOMAIN invoices :
          /\ invoices[id].status = "Draft"
          /\ invoices[id].approved_at = None
          /\ invoices[id].created_at = now
          /\ invoices[id].due_date = now + 1

\* C29: check_escrow_conditions fails with EscrowNotFound when no escrow
\* has the id; returns false (not an error) when the escrow's status is not
\* Active or now > expires_at; and never changes any state.
C29_CheckEscrowConditions ==
    \A id \in IdInputs :
        LET x == check_escrow_conditions(Env, id) IN
        /\ x.env = Env
        /\ id \notin DOMAIN escrows => x.err = "EscrowNotFound"
        /\ id \in DOMAIN escrows =>
              /\ x.err = "Ok"
              /\ (escrows[id].status # "Active"
                    \/ now > escrows[id].expires_at) => ~x.met

C29_Witness ==
    /\ \E id \in IdInputs :
          /\ id \notin DOMAIN escrows
          /\ check_escrow_conditions(Env, id).err = "EscrowNotFound"
    /\ \E id \in DOMAIN escrows :
          /\ escrows[id].status # "Active"
          /\ now <= escrows[id].expires_at
          /\ ~check_escrow_conditions(Env, id).met

\* C30: for an Active unexpired escrow the condition evaluation returns
\* true if and only if every condition in the sequence evaluates true;
\* conditions are evaluated in sequence order and evaluation stops at the
\* first false one, so no condition after the first false one is evaluated.
C30_AllConditionsInOrder ==
    \A id \in DOMAIN escrows :
        (escrows[id].status = "Active" /\ now <= escrows[id].expires_at) =>
            LET c == escrows[id].conditions
                x == check_escrow_conditions(Env, id)
                evaluated == ConditionsEvaluated(c, 1)
            IN  /\ x.err = "Ok"
                /\ x.met <=>
                       \A k \in 1 .. Len(c) : check_single_condition(c[k])
                /\ \A k \in 1 .. Len(evaluated) : evaluated[k] = k
                /\ \A k \in 1 .. Len(c) :
                       (\E j \in 1 .. (k - 1) :
                            ~check_single_condition(c[j])) =>
                           \A n \in 1 .. Len(evaluated) : evaluated[n] # k
                /\ x.met => Len(evaluated) = Len(c)

C30_Witness ==
    \E id \in DOMAIN escrows :
        /\ escrows[id].status = "Active"
        /\ now <= escrows[id].expires_at
        /\ Len(escrows[id].conditions) = 3
        /\ ConditionsEvaluated(escrows[id].conditions, 1) = << 1, 2, 3 >>
        /\ check_escrow_conditions(Env, id).met

\* The condition sequences of one to three conditions of any kinds.
ConditionSequences ==
    UNION { [1 .. n -> ConditionType] : n \in 1 .. 3 }

\* C31: for any escrow with one to three conditions of any kinds, while it
\* is Active and now <= expires_at, check_escrow_conditions returns true,
\* release_escrow (admitted by the guard) succeeds, and process_escrow ends
\* in Released, never returning the unchanged Active result.
C31_AnyConditionsRelease ==
    ~reentry =>
        \A s \in Senders, r \in Recipients, a \in AmountInputs,
           c \in ConditionSequences, e \in (now + 1) .. (MaxTime + 1) :
            validate_amount(a) = "Ok" =>
                LET x == create_escrow(Env, s, r, a, c, e) IN
                /\ x.err = "Ok"
                /\ \A t \in now .. e :
                      LET k == check_escrow_conditions(At(x.env, t), x.id)
                          l == release_escrow(At(x.env, t), x.id)
                          p == process_escrow(At(x.env, t), x.id)
                      IN  /\ k.err = "Ok" /\ k.met
                          /\ l.err = "Ok" /\ l.status = "Released"
                          /\ l.env.escrows[x.id].status = "Released"
                          /\ p.err = "Ok" /\ p.status = "Released"
                          /\ p.env.escrows[x.id].status = "Released"

C31_Witness ==
    /\ ~reentry
    /\ \E id \in DOMAIN escrows :
          /\ escrows[id].status = "Active"
          /\ now = escrows[id].expires_at
          /\ escrows[id].conditions \in ConditionSequences
          /\ process_escrow(Env, id).status = "Released"
    /\ \E id \in DOMAIN escrows :
          /\ escrows[id].status = "Released"
          /\ escrows[id].conditions \in ConditionSequences

\* C32: after an escrow is created, its sender, recipient, amount,
\* conditions, created_at and expires_at never change: every operation,
\* release_escrow, refund_escrow and process_escrow included, changes at
\* most the status field of a stored escrow.
C32_EscrowFieldsImmutable ==
    [][ \A id \in DOMAIN escrows :
            /\ id \in DOMAIN escrows'
            /\ [escrows'[id] EXCEPT !.status = escrows[id].status] =
                   escrows[id] ]_vars

C32_Witness ==
    /\ \E id \in DOMAIN escrows :
          /\ escrows[id].status = "Refunded"
          /\ escrows[id].conditions # <<>>
          /\ escrows[id].amount = I128_MAX \div 2
    /\ \E id \in DOMAIN escrows :
          /\ escrows[id].status = "Released"
          /\ escrows[id].conditions # <<>>

\* C33: in every reachable state every stored escrow has expires_at
\* strictly greater than created_at, and every stored invoice has due_date
\* strictly greater than created_at.
C33_ExpiryAfterCreation ==
    /\ \A id \in DOMAIN escrows :
          escrows[id].expires_at > escrows[id].created_at
    /\ \A id \in DOMAIN invoices :
          invoices[id].due_date > invoices[id].created_at

C33_Witness ==
    /\ \E id \in DOMAIN escrows :
          /\ escrows[id].created_at > 0
          /\ escrows[id].expires_at = escrows[id].created_at + 1
    /\ \E id \in DOMAIN invoices :
          /\ invoices[id].created_at > 0
          /\ invoices[id].due_date = invoices[id].created_at + 1

\* The records and the counter of each kind.
TransactionStore(env) == << env.tx_count, env.transactions >>
EscrowStore(env) == << env.esc_count, env.escrows >>
InvoiceStore(env) == << env.inv_count, env.invoices >>

\* C34: records of different kinds are independent: an operation on one
\* entity kind leaves the records and the counter of the other two kinds
\* unchanged, also when records of different kinds share the same numeric
\* id: a transaction, an escrow and an invoice created under the same id
\* coexist and are read back unmixed.
C34_KindsIndependent ==
    /\ [][ /\ (\/ ExecuteTransaction \/ ExecuteP2pTransaction
               \/ GetTransaction \/ GetTransactionHistory) =>
                 /\ EscrowStore(Env)' = EscrowStore(Env)
                 /\ InvoiceStore(Env)' = InvoiceStore(Env)
           /\ (\/ CreateEscrow \/ CheckEscrowConditions \/ ReleaseEscrow
               \/ RefundEscrow \/ ProcessEscrow \/ GetEscrowDetails) =>
                 /\ TransactionStore(Env)' = TransactionStore(Env)
                 /\ InvoiceStore(Env)' = InvoiceStore(Env)
           /\ (\/ CreateInvoice \/ MarkInvoiceSent \/ ApproveInvoice
               \/ ExecuteInvoice \/ RejectInvoice \/ CheckInvoiceExpiration
               \/ GetInvoice) =>
                 /\ TransactionStore(Env)' = TransactionStore(Env)
                 /\ EscrowStore(Env)' = EscrowStore(Env) ]_vars
    /\ [](~reentry =>
            \A s \in Senders, r \in Recipients, a \in AmountInputs,
               c \in ConditionInputs :
                validate_amount(a) = "Ok" =>
                    LET t == execute_transaction(Env, s, r, a)
                        e == create_escrow(t.env, s, r, a, c, now + 1)
                        i == create_invoice(e.env, r, s, a, now + 1)
                        gt == get_transaction(i.env, t.id)
                        ge == get_escrow_details(i.env, e.id)
                        gi == get_invoice(i.env, i.id)
                    IN  /\ t.err = "Ok" /\ e.err = "Ok" /\ i.err = "Ok"
                        /\ EscrowStore(t.env) = EscrowStore(Env)
                        /\ InvoiceStore(t.env) = InvoiceStore(Env)
                        /\ TransactionStore(e.env) = TransactionStore(t.env)
                        /\ InvoiceStore(e.env) = InvoiceStore(t.env)
                        /\ TransactionStore(i.env) = TransactionStore(e.env)
                        /\ EscrowStore(i.env) = EscrowStore(e.env)
                        /\ gt.rec = Some(t.env.transactions[t.id])
                        /\ gt.rec[1].transaction_type = "Basic"
                        /\ ge.rec = Some(e.env.escrows[e.id])
                        /\ ge.rec[1].conditions = c
                        /\ gi.rec = Some(i.env.invoices[i.id])
                        /\ gi.rec[1].creator = r)

C34_Witness ==
    /\ ~reentry
    /\ 1 \in DOMAIN escrows
    /\ 1 \in DOMAIN invoices
    /\ tx_count = 0
    /\ \E s \in Senders, r \in Recipients, a \in AmountInputs :
          LET t == execute_transaction(Env, s, r, a)
          IN  /\ t.err = "Ok"
              /\ t.id = 1
              /\ get_escrow_details(t.env, 1).rec = Some(escrows[1])
              /\ get_invoice(t.env, 1).rec = Some(invoices[1])
              /\ get_transaction(t.env, 1).rec[1].transaction_type = "Basic"

\* C35: ids are dense: in every state between operations, for each kind a
\* record exists at id n if and only if 1 <= n <= the kind's counter; no
\* operation consumes an id without storing a record, and no record is ever
\* deleted.
C35_IdsDense ==
    /\ [] /\ DOMAIN transactions = 1 .. tx_count
          /\ DOMAIN escrows = 1 .. esc_count
          /\ DOMAIN invoices = 1 .. inv_count
    /\ [][ /\ DOMAIN transactions' = 1 .. tx_count'
           /\ DOMAIN escrows' = 1 .. esc_count'
           /\ DOMAIN invoices' = 1 .. inv_count'
           /\ DOMAIN transactions \subseteq DOMAIN transactions'
           /\ DOMAIN escrows \subseteq DOMAIN escrows'
           /\ DOMAIN invoices \subseteq DOMAIN invoices' ]_vars

C35_Witness ==
    /\ inv_count = 1
    /\ DOMAIN invoices = {1}
    /\ esc_count = 1
    /\ DOMAIN escrows = {1}
    /\ DOMAIN transactions = {}
    /\ now > 0
    /\ create_invoice(Env, "alice", "bob", I128_MAX \div 2, now).err =
           "InvalidAmount"

\* C36: every invoice with status Executed has an approval timestamp with
\* created_at <= approved_at <= due_date, and was executed at a time
\* <= due_date: execute_invoice succeeds only at a time <= due_date on an
\* invoice approved no later than the due date.
C36_ExecutedApprovedInTime ==
    \A id \in DOMAIN invoices :
        LET i == invoices[id]
            x == execute_invoice(Env, id)
        IN  /\ i.status = "Executed" =>
                /\ i.approved_at # None
                /\ i.created_at <= i.approved_at[1]
                /\ i.approved_at[1] <= i.due_date
            /\ x.err = "Ok" =>
                /\ now <= i.due_date
                /\ i.approved_at # None
                /\ i.created_at <= i.approved_at[1]
                /\ i.approved_at[1] <= now
                /\ x.env.invoices[id].status = "Executed"
                /\ x.env.invoices[id].approved_at = i.approved_at

C36_Witness ==
    /\ \E id \in DOMAIN invoices :
          /\ invoices[id].status = "Executed"
          /\ invoices[id].approved_at = Some(invoices[id].due_date)
          /\ invoices[id].created_at < invoices[id].due_date
          /\ now > invoices[id].due_date
    /\ \E id \in DOMAIN invoices :
          /\ invoices[id].status = "Approved"
          /\ now > invoices[id].due_date
          /\ execute_invoice(Env, id).err # "Ok"

\* C37: if process_escrow is invoked repeatedly (weak fairness) with the
\* guard clear, every Active escrow eventually reaches Released or Refunded
\* and then stays there; an escrow still Active after its expiry is
\* Refunded by the next process_escrow call.
C37_ProcessDrivesToTerminal ==
    /\ \A id \in IdInputs :
          (id \in DOMAIN escrows /\ escrows[id].status = "Active"
             /\ ~reentry)
          ~> \/ reentry
             \/ /\ id \in DOMAIN escrows
                /\ escrows[id].status \in EscrowTerminal
    /\ [][ \A id \in DOMAIN escrows :
              /\ escrows[id].status \in EscrowTerminal =>
                    escrows'[id].status = escrows[id].status
              /\ (/\ escrows[id].status = "Active"
                  /\ now > escrows[id].expires_at
                  /\ ~reentry
                  /\ Call(process_escrow(Env, id))) =>
                    escrows'[id].status = "Refunded" ]_vars

C37_Witness ==
    /\ ~reentry
    /\ \E id \in DOMAIN escrows :
          /\ escrows[id].status = "Refunded"
          /\ now > escrows[id].expires_at
    /\ \E id \in DOMAIN escrows :
          /\ escrows[id].status = "Active"
          /\ now > escrows[id].expires_at
          /\ process_escrow(Env, id).status = "Refunded"

\* C38: mark_invoice_sent and reject_invoice do not consult the due date:
\* after now > due_date, a Draft invoice can still become Sent and a Draft
\* or Sent invoice can still become Rejected by its client, so an overdue
\* invoice may end Rejected instead of Expired.
C38_OverdueSentAndRejected ==
    \A id \in DOMAIN invoices :
        LET i == invoices[id]
            m == mark_invoice_sent(Env, id, i.creator)
            j == reject_invoice(Env, id, i.client)
            k == reject_invoice(m.env, id, i.client)
        IN  now > i.due_date =>
                /\ i.status = "Draft" =>
                      /\ m.err = "Ok" /\ m.status = "Sent"
                      /\ m.env.invoices[id].status = "Sent"
                      /\ ~reentry =>
                            /\ k.err = "Ok"
                            /\ k.env.invoices[id].status = "Rejected"
                /\ (~reentry /\ i.status \in {"Draft", "Sent"}) =>
                      /\ j.err = "Ok" /\ j.status = "Rejected"
                      /\ j.env.invoices[id].status = "Rejected"

C38_Witness ==
    /\ ~reentry
    /\ \E id \in DOMAIN invoices :
          /\ invoices[id].status = "Draft"
          /\ now > invoices[id].due_date
          /\ mark_invoice_sent(Env, id, invoices[id].creator).status = "Sent"
    /\ \E id \in DOMAIN invoices :
          /\ invoices[id].status = "Sent"
          /\ now > invoices[id].due_date
          /\ reject_invoice(Env, id, invoices[id].client).status = "Rejected"

\* C39: get_transaction_history returns an empty list for every party after
\* any sequence of operations, including after transactions with that party
\* as sender or recipient were confirmed, and changes no state.
C39_HistoryEmpty ==
    \A account \in Address :
        LET h == get_transaction_history(Env, account) IN
        /\ h.err = "Ok"
        /\ h.rec = <<>>
        /\ h.env = Env

C39_Witness ==
    /\ \E id \in DOMAIN transactions :
          /\ transactions[id].status = "Confirmed"
          /\ transactions[id].sender = "alice"
          /\ get_transaction_history(Env, "alice").rec = <<>>
    /\ \E id \in DOMAIN transactions :
          /\ transactions[id].transaction_type = "P2P"
          /\ transactions[id].recipient = "bob"
          /\ get_transaction_history(Env, "bob").rec = <<>>

====
